---- MODULE Spec2Model ----
(***************************************************************************)
(* groundcrew: the agent's dispatch loop (src/src/groundcrew/agent.py).    *)
(*                                                                         *)
(* The model follows Agent.dispatch step by step: the adapter call, the    *)
(* inspection of the response, the execution of the selected tool, and the *)
(* merge of the working set (self.dispatch_messages) into the session      *)
(* (self.messages) done by interact / interact_functional.                 *)
(*                                                                         *)
(* Python values:                                                          *)
(*   str               a TLA+ string, + is \o                              *)
(*   Optional[x]       a sequence of length 0 (None) or 1 (the value)      *)
(*   dict[str, value]  a function from a set of strings (a record)         *)
(*   a value of a tool argument: a string; Python's None is PyNone         *)
(***************************************************************************)
EXTENDS Integers, Sequences, FiniteSets, TLC

VARIABLES
    messages,              \* self.messages: the session history
    dispatch_messages,     \* self.dispatch_messages: the working set
    pc,                    \* where the agent is (see States)
    op,                    \* the agent-facing operation in progress
    user_prompt,           \* the raw prompt of the current interaction
    select_tool_response,  \* dispatch's local: the adapter's last response
    llm_log,               \* the adapter calls of the current dispatch:
                           \* the context passed and the response returned
    handler_calls,         \* tool.obj(**tool_args) calls of the current dispatch
    raised,                \* the exception leaving the interaction, if any:
                           \* out of dispatch or out of Agent.print
    answer,                \* what the last interaction returned to its caller
    printed,               \* what the last interaction printed as the agent
    session_before,        \* history: self.messages when dispatch was called
    completed,             \* history: the working sets of the interactions
                           \* that returned to their caller, in call order
    \* one call of the ollama chat function (llm/ollama_api.py)
    chat_messages,         \* the messages argument
    backend,               \* what client.chat does when called
    chat_result,           \* the outcome of the call, once made
    \* the control state of the dispatch loop, for its termination: the loop
    \* reads nothing of the working set but the response just received
    live_pc,               \* where dispatch is (see States)
    live_response,         \* dispatch's local: the adapter's last response
    live_last,             \* the message appended last to the working set
    live_rounds,           \* tool rounds run by this dispatch, counted up to
                           \* MaxLiveRounds
    \* the HTTP endpoint (api_services/app.py): the requests in progress, all
    \* served by the one module-level agent (messages, dispatch_messages)
    req_pc,                \* per request: the statement it is about to run
    req_prompt,            \* per request: message.message
    req_context,           \* per request: the context it passed to self.llm
    req_response,          \* per request: dispatch's local select_tool_response
    req_result,            \* per request: what interact_functional returned
                           \* or raised
    list_id,               \* which list object self.dispatch_messages names:
                           \* the number of "self.dispatch_messages = []" run
    req_list,              \* per request: the list object it is about to
                           \* append its question to
    \* setup_tools (utils.py)
    setup_queue,           \* the tool classes the loops have yet to meet
    tools,                 \* the dict being built: name -> Tool
    setup_pc,              \* "running", "returned" or "raised"
    setup_error,           \* the exception leaving setup_tools, if any
    setup_log,             \* history: each class met and what became of it
    tool_keys,             \* the keys of tools in the order of the dict
    exports,               \* history: what each save_tools_to_yaml returned
                           \* and wrote
    \* one call of highlight_code (utils.py)
    hl_text,               \* the text argument
    hl_out,                \* the local out
    hl_pc,                 \* "called", "looping", "returned" or "raised"
    \* one message through message_to_dict and dict_to_message
    \* (llm/ollama_api.py)
    wire_message,          \* the message
    wire_dict,             \* message_to_dict(message), once made
    wire_back              \* the outcome of dict_to_message, once made

agent_vars == <<messages, dispatch_messages, pc, op, user_prompt,
                select_tool_response, llm_log, handler_calls, raised, answer,
                printed, session_before, completed>>

chat_vars == <<chat_messages, backend, chat_result>>

live_vars == <<live_pc, live_response, live_last, live_rounds>>

\* The fields of Agent that no request handler touches.
caller_vars == <<pc, op, user_prompt, select_tool_response, llm_log,
                 handler_calls, raised, answer, printed, session_before,
                 completed>>

serve_vars == <<req_pc, req_prompt, req_context, req_response, req_result,
                list_id, req_list>>

setup_vars == <<setup_queue, tools, setup_pc, setup_error, setup_log,
               tool_keys, exports>>

hl_vars == <<hl_text, hl_out, hl_pc>>

wire_vars == <<wire_message, wire_dict, wire_back>>

vars == <<agent_vars, chat_vars, live_vars, serve_vars, setup_vars, hl_vars,
          wire_vars>>

\* What the agent's steps leave alone.
other_vars == <<chat_vars, live_vars, serve_vars, setup_vars, hl_vars,
                wire_vars>>

----------------------------------------------------------------------------
(* Bounds of the model *)

\* tool rounds the adapter may ask for in one dispatch
MaxRounds == 2
\* tool calls the adapter may put in one assistant message
MaxToolCalls == 2
\* a new interaction starts only while the session is at most this long
MaxHistory == 2
\* the tool rounds of one dispatch are counted up to this number
MaxLiveRounds == 2

----------------------------------------------------------------------------
(* Python values *)

None == <<>>
Some(x) == <<x>>
PyNone == "None"

\* How a call ends: it raises an exception or returns a value.
Raise(exception) == [kind |-> "raise", value |-> exception]

Return(value) == [kind |-> "return", value |-> value]

Range(s) == {s[i] : i \in 1..Len(s)}

Last(s) == s[Len(s)]

----------------------------------------------------------------------------
(* Message model *)

SystemMessage(content) == [role |-> "system", content |-> content]

UserMessage(content) == [role |-> "user", content |-> content]

AssistantMessage(content, tool_calls) ==
    [role |-> "assistant", content |-> content, tool_calls |-> tool_calls]

ToolMessage(tool_call_id, content, name) ==
    [role |-> "tool", content |-> content,
     tool_call_id |-> tool_call_id, name |-> name]

ToolCall(function_name, function_args, tool_call_id) ==
    [function_name |-> function_name, function_args |-> function_args,
     tool_call_id |-> tool_call_id, tool_type |-> "function"]

AGENT_PROMPT ==
    "\nYou are an assistant that answers question about a codebase. "
    \o "All of the user's questions should be about this particular codebase, "
    \o "and you will be given tools that you can use to help you answer "
    \o "questions about the codebase.\n"

QUESTION_HEADER == "\n\n### Question ###\n"

DOES_NOT_EXIST == "The LLM tried to call a function that does not exist."

TOOL_ERROR_PREFIX == "An error occurred while running the tool: "

API_ERROR == "There was an API error. Please try again.. "

----------------------------------------------------------------------------
(* Tool registry: self.tools, as setup_tools leaves it *)

\* The names of the registered tools (the keys of self.tools).
RegisteredTools == {"Echo", "Bare"}

\* inspect.signature(tool.obj).parameters: the handler's parameter names, in
\* order.  Echo is the documented shape of a tool, __call__(self, user_prompt,
\* a, b); Bare is a handler that does not declare user_prompt.  No parameter
\* has a default value.
Signature(name) ==
    IF name = "Echo" THEN <<"user_prompt", "a", "b">> ELSE <<"a">>

----------------------------------------------------------------------------
(* The environment: prompts, adapter responses, handler behaviour *)

Prompts == {"why?", "how?"}

\* function_args the LLM may send: a hallucinated key c, a user_prompt of its
\* own, a missing b.
LlmArgs == { [a |-> "1", c |-> "99"], [user_prompt |-> "evil", a |-> "1"] }

ToolNames == RegisteredTools \cup {"does_not_exist"}

\* The first tool call of an assistant turn.
FirstCalls ==
    { ToolCall(n, args, "call_1") : n \in ToolNames, args \in LlmArgs }

\* The i-th further tool call of the same turn (i >= 2).
ExtraCall(i) == ToolCall("Bare", [a |-> "2"], "call_x")

\* tool_calls of an assistant turn: a single tool call, with either
\* function_args, or MaxToolCalls of them, the first one naming any of the
\* tools with the first function_args.
ToolCallLists ==
    { <<first>> : first \in FirstCalls }
    \cup { [i \in 1..MaxToolCalls |-> IF i = 1 THEN first ELSE ExtraCall(i)] :
              first \in { ToolCall(n, [a |-> "1", c |-> "99"], "call_1") :
                            n \in ToolNames } }

\* Answers with a block of Python code: two characters, the marker of a
\* python block, a line of code, and the closing fence or none.  In these
\* strings the backquote is written as an apostrophe.
CODE_ANSWER == "ab'''python\nx\n'''"

OPEN_ANSWER == "ab'''python\nx"

\* What the adapter can return: a final answer (tool_calls None), an
\* assistant message with an empty tool_calls list, the error sentinel of
\* chat_func (a UserMessage), an assistant message with tool calls.
FinalResponses ==
    { AssistantMessage("final", None),
      AssistantMessage(CODE_ANSWER, None),
      AssistantMessage(OPEN_ANSWER, None),
      AssistantMessage("final", Some(<<>>)),
      UserMessage(API_ERROR \o "down") }

ToolCallResponses == { AssistantMessage("", Some(tcs)) : tcs \in ToolCallLists }

\* What a handler does once its body runs: return a string, raise an
\* Exception, or raise an exception that is not an Exception (the
\* KeyboardInterrupt of a Ctrl-C while the tool runs).  type is the class of
\* what is returned or raised, value the string or str(e).
HandlerOutcomes ==
    { [kind |-> "return", type |-> "str", value |-> "tool output"],
      [kind |-> "raise", type |-> "Exception", value |-> "boom"],
      [kind |-> "raise", type |-> "KeyboardInterrupt", value |-> ""] }

\* The classes of the exceptions of the model that derive from Exception.
ExceptionClasses == {"Exception", "TypeError", "KeyError"}

----------------------------------------------------------------------------
(* highlight_code and highlight_code_helper (src/src/groundcrew/utils.py)  *)
(*                                                                         *)
(* A str is the sequence of its characters, an index of Python is 0-based. *)
(* The backquote is written "BQ", the newline "NL" and the escape          *)
(* character (0x1b) "ESC".                                                 *)

FENCE == <<"BQ", "BQ", "BQ">>

PYTHON_FENCE == FENCE \o <<"p", "y", "t", "h", "o", "n">>

\* text.find(sub, start): the least index >= start at which sub occurs in
\* text, or -1.
find(text, sub, start) ==
    LET hits == {i \in start..(Len(text) - Len(sub)) :
                    SubSeq(text, i + 1, i + Len(sub)) = sub}
    IN  IF hits = {} THEN -1
        ELSE CHOOSE i \in hits : \A j \in hits : i <= j

\* sub in text
contains(text, sub) == find(text, sub, 0) # -1

\* text[i:] for i >= 0
SliceFrom(text, i) == SubSeq(text, i + 1, Len(text))

\* text[:i]; a negative i counts from the end.
SliceTo(text, i) ==
    IF i >= 0 THEN SubSeq(text, 1, i) ELSE SubSeq(text, 1, Len(text) + i)

\* text.split(sep)[0]
BeforeFirst(text, sep) ==
    IF contains(text, sep) THEN SliceTo(text, find(text, sep, 0)) ELSE text

\* text.split(sep)[1], for a text that contains sep
AfterFirst(text, sep) ==
    BeforeFirst(SliceFrom(text, find(text, sep, 0) + Len(sep)), sep)

\* The letters of the texts.
Letters == {"a", "b", "x", "p", "y", "t", "h", "o", "n"}

\* The escape sequences Terminal256Formatter(style='monokai') writes before
\* and after a token: a name, the operator word not, a character that is no
\* Python token (the backquote).
NAME_ON == <<"ESC", "[", "3", "8", ";", "5", ";", "2", "5", "5", "m">>

OPERATOR_WORD_ON == <<"ESC", "[", "3", "8", ";", "5", ";", "2", "0", "4", "m">>

COLOUR_OFF == <<"ESC", "[", "3", "9", "m">>

ERROR_ON ==
    <<"ESC", "[", "3", "8", ";", "5", ";", "1", "9", "8", ";",
      "4", "8", ";", "5", ";", "2", "3", "3", "m">>

ERROR_OFF == <<"ESC", "[", "3", "9", ";", "4", "9", "m">>

\* text.strip('\n'), the stripnl of the lexer
RECURSIVE StripLeft(_)
StripLeft(text) ==
    IF text # <<>> /\ Head(text) = "NL" THEN StripLeft(Tail(text)) ELSE text

RECURSIVE StripRight(_)
StripRight(text) ==
    IF text # <<>> /\ text[Len(text)] = "NL"
    THEN StripRight(SubSeq(text, 1, Len(text) - 1))
    ELSE text

\* The length of the word text begins with.
RECURSIVE WordLen(_)
WordLen(text) ==
    IF text # <<>> /\ Head(text) \in Letters THEN 1 + WordLen(Tail(text)) ELSE 0

\* The formatter over the tokens of PythonLexer, for a text of letters,
\* backquotes and newlines: a word is one token, a backquote is one token, a
\* newline is written as it is.
RECURSIVE FormatTokens(_)
FormatTokens(text) ==
    IF text = <<>> THEN <<>>
    ELSE IF Head(text) = "NL" THEN <<"NL">> \o FormatTokens(Tail(text))
    ELSE IF Head(text) \in Letters
    THEN LET word == SubSeq(text, 1, WordLen(text))
         IN  (IF word = <<"n", "o", "t">> THEN OPERATOR_WORD_ON ELSE NAME_ON)
             \o word \o COLOUR_OFF
             \o FormatTokens(SubSeq(text, WordLen(text) + 1, Len(text)))
    ELSE ERROR_ON \o <<Head(text)>> \o ERROR_OFF \o FormatTokens(Tail(text))

\* highlight(code, PythonLexer(), Terminal256Formatter(style=colorscheme,
\* background='dark')) of pygments: the lexer strips the newlines at both
\* ends of the code and ends it with one newline.
highlight(code) == FormatTokens(StripRight(StripLeft(code)) \o <<"NL">>)

highlight_code_helper(text) ==
    LET start_idx == find(text, PYTHON_FENCE, 0)
        end_idx == find(text, FENCE, start_idx + 1)
        code == IF contains(text, PYTHON_FENCE)
                THEN highlight(BeforeFirst(AfterFirst(text, PYTHON_FENCE), FENCE))
                ELSE <<>>
    IN  IF start_idx = -1 /\ end_idx = -1 THEN text
        ELSE SliceTo(text, start_idx) \o code \o SliceFrom(text, end_idx + 3)

\* The longest str the memory holds: building a longer one is a MemoryError.
MaxTextLen == 400

\* The while loop of highlight_code, from the text out on.
RECURSIVE highlight_code_loop(_)
highlight_code_loop(out) ==
    IF ~contains(out, PYTHON_FENCE) THEN Return(out)
    ELSE LET next == highlight_code_helper(out)
         IN  IF Len(next) > MaxTextLen THEN Raise("MemoryError")
             ELSE highlight_code_loop(next)

\* highlight_code(text, colorscheme): how the call ends.
highlight_code(text) ==
    IF ~contains(text, PYTHON_FENCE) THEN Return(text)
    ELSE LET out == highlight_code_helper(text)
         IN  IF Len(out) > MaxTextLen THEN Raise("MemoryError")
             ELSE highlight_code_loop(out)

----------------------------------------------------------------------------
(* Agent.run_tool *)

\* A faulty variant of FirstToolCall: the last tool call of the turn, not the first.
LastToolCall(llm_response) ==
    llm_response.tool_calls[1][Len(llm_response.tool_calls[1])]

\* llm_response.tool_calls[0]
FirstToolCall(llm_response) == llm_response.tool_calls[1][1]

\* Agent.extract_params
extract_params(llm_response) == FirstToolCall(llm_response).function_args

\* "Filter out incorrect parameters": keep the LLM's keys the handler declares.
FilterParams(tool_args, expected_tool_args) ==
    [k \in DOMAIN tool_args \cap Range(expected_tool_args) |-> tool_args[k]]

\* "Add any missing parameters": every declared parameter but user_prompt
\* that is not yet a key gets None.
FillMissing(tool_args, expected_tool_args) ==
    [k \in DOMAIN tool_args \cup (Range(expected_tool_args) \ {"user_prompt"}) |->
        IF k \in DOMAIN tool_args THEN tool_args[k] ELSE PyNone]

\* The message of the TypeError Python raises when a call leaves a parameter
\* without a value.
MissingArgument(name, param) ==
    name \o ".__call__() missing 1 required positional argument: '"
         \o param \o "'"

\* tool.obj(**tool_args): Python binds the keywords to the handler's
\* parameters first; a parameter left without a value is a TypeError and the
\* handler's body does not run.  Otherwise the body runs and does `outcome`.
CallHandler(name, tool_args, outcome) ==
    LET missing == Range(Signature(name)) \ DOMAIN tool_args
    IN  IF missing # {}
        THEN [kind |-> "raise", entered |-> FALSE, type |-> "TypeError",
              value |-> MissingArgument(name, CHOOSE p \in missing : TRUE)]
        ELSE [kind |-> outcome.kind, entered |-> TRUE, type |-> outcome.type,
              value |-> outcome.value]

\* A faulty variant of Reconcile: the keys are dropped from and added to the
\* dict of the tool call itself.
Reconcile_in_place(function_args, expected_tool_args) ==
    LET reconciled == FillMissing(
            FilterParams(function_args, expected_tool_args),
            expected_tool_args)
    IN  [function_args |-> reconciled, tool_args |-> reconciled]

\* The two dicts of run_tool once the arguments are reconciled: the dict of
\* the tool call, which extract_params returned and the filter loop only
\* reads, and new_args, a dict of its own that the loops fill and tool_args
\* is bound to.
Reconcile(function_args, expected_tool_args) ==
    [function_args |-> function_args,
     tool_args |-> FillMissing(
         FilterParams(function_args, expected_tool_args),
         expected_tool_args)]

\* run_tool from "tool = self.tools[tool_selection]" on: reconcile the
\* arguments and call the handler.  The result says whether run_tool returned
\* or raised and with what, and records the call of tool.obj.
RunKnownTool(llm_response, outcome) ==
    LET tool_selection == FirstToolCall(llm_response).function_name
        expected_tool_args == Signature(tool_selection)
        dicts == Reconcile(extract_params(llm_response), expected_tool_args)
        tool_args == dicts.tool_args
        r == CallHandler(tool_selection, tool_args, outcome)
    IN  [kind |-> r.kind, type |-> r.type, value |-> r.value,
         function_args |-> dicts.function_args,
         called |-> Some([name |-> tool_selection,
                          function_args |-> extract_params(llm_response),
                          tool_args |-> tool_args,
                          entered |-> r.entered,
                          kind |-> r.kind,
                          type |-> r.type,
                          value |-> r.value])]

\* A faulty variant of run_tool: no test that the tool is registered, so that
\* self.tools[tool_selection] raises KeyError for an unknown name.
run_tool_without_lookup_test(llm_response, outcome) ==
    LET tool_selection == FirstToolCall(llm_response).function_name
    IN  IF tool_selection \notin RegisteredTools
        THEN [kind |-> "raise", type |-> "KeyError",
              value |-> "'" \o tool_selection \o "'",
              function_args |-> FirstToolCall(llm_response).function_args,
              called |-> None]
        ELSE RunKnownTool(llm_response, outcome)

\* Agent.run_tool: an unknown tool name is answered with a fixed string and
\* no handler is called.
run_tool(llm_response, outcome) ==
    LET tool_selection == FirstToolCall(llm_response).function_name
    IN  IF tool_selection \notin RegisteredTools
        THEN [kind |-> "return", type |-> "str", value |-> DOES_NOT_EXIST,
              function_args |-> FirstToolCall(llm_response).function_args,
              called |-> None]
        ELSE RunKnownTool(llm_response, outcome)

----------------------------------------------------------------------------
(* Agent.dispatch, step by step *)

\* pc: "idle" between interactions; inside dispatch AWAITING_MODEL (about to
\* call self.llm), MODEL_RESPONDED (response appended, not yet inspected),
\* EXECUTING_TOOL; DONE when dispatch has returned and the caller has not
\* merged yet; RAISED when an exception is leaving dispatch.
States == {"idle", "AWAITING_MODEL", "MODEL_RESPONDED", "EXECUTING_TOOL",
           "DONE", "RAISED"}

Operations == {"interact", "interact_functional"}

\* Tool rounds completed by the current dispatch.
Rounds == Len(handler_calls)

\* Adapter calls made by the current dispatch.
llm_calls == Len(llm_log)

\* No call of the chat function is under way.
NoChat ==
    /\ chat_messages = <<>>
    /\ backend = [kind |-> "ConnectionError"]
    /\ chat_result = None

\* Agent.__init__: an empty session and an empty working set.
AgentInit ==
    /\ messages = <<>>
    /\ dispatch_messages = <<>>
    /\ pc = "idle"
    /\ op = "interact"
    /\ user_prompt = ""
    /\ select_tool_response = None
    /\ llm_log = <<>>
    /\ handler_calls = <<>>
    /\ raised = None
    /\ answer = None
    /\ printed = None
    /\ session_before = <<>>
    /\ completed = <<>>

\* No dispatch is followed for its termination.
NoLive ==
    /\ live_pc = "idle"
    /\ live_response = None
    /\ live_last = None
    /\ live_rounds = 0

\* The requests the endpoint serves at the same time.
Requests == {1, 2}

\* No request has arrived.
NoServe ==
    /\ req_pc = [t \in Requests |-> "idle"]
    /\ req_prompt = [t \in Requests |-> ""]
    /\ req_context = [t \in Requests |-> None]
    /\ req_response = [t \in Requests |-> None]
    /\ req_result = [t \in Requests |-> None]
    /\ list_id = 0
    /\ req_list = [t \in Requests |-> 0]

\* setup_tools is not running.
NoSetup ==
    /\ setup_queue = <<>>
    /\ tools = <<>>
    /\ setup_pc = "returned"
    /\ setup_error = None
    /\ setup_log = <<>>
    /\ tool_keys = <<>>
    /\ exports = <<>>

\* highlight_code is not running.
NoHighlight ==
    /\ hl_text = <<>>
    /\ hl_out = <<>>
    /\ hl_pc = "returned"

\* No message is being converted.
NoWire ==
    /\ wire_message = UserMessage("")
    /\ wire_dict = None
    /\ wire_back = None

Init ==
    /\ AgentInit
    /\ NoChat
    /\ NoLive
    /\ NoServe
    /\ NoSetup
    /\ NoHighlight
    /\ NoWire

\* A faulty variant of StartDispatch: the question is also appended to the
\* session.
StartDispatch_into_session(o, prompt) ==
    /\ pc = "idle"
    /\ Len(messages) <= MaxHistory
    /\ pc' = "AWAITING_MODEL"
    /\ op' = o
    /\ user_prompt' = prompt
    /\ dispatch_messages' = <<UserMessage(QUESTION_HEADER \o prompt)>>
    /\ messages' = Append(messages, UserMessage(QUESTION_HEADER \o prompt))
    /\ select_tool_response' = None
    /\ llm_log' = <<>>
    /\ handler_calls' = <<>>
    /\ raised' = None
    /\ answer' = None
    /\ printed' = None
    /\ session_before' = messages
    /\ UNCHANGED completed
    /\ UNCHANGED other_vars

\* interact / interact_functional call dispatch, which resets the working set
\* and puts the question in it.
StartDispatch(o, prompt) ==
    /\ pc = "idle"
    /\ Len(messages) <= MaxHistory
    /\ pc' = "AWAITING_MODEL"
    /\ op' = o
    /\ user_prompt' = prompt
    /\ dispatch_messages' = <<UserMessage(QUESTION_HEADER \o prompt)>>
    /\ select_tool_response' = None
    /\ llm_log' = <<>>
    /\ handler_calls' = <<>>
    /\ raised' = None
    /\ answer' = None
    /\ printed' = None
    /\ session_before' = messages
    /\ UNCHANGED <<messages, completed>>
    /\ UNCHANGED other_vars

\* A faulty variant of Context: the session history is left out.
Context_without_session == <<SystemMessage(AGENT_PROMPT)>> \o dispatch_messages

\* The context dispatch passes to self.llm.
Context == <<SystemMessage(AGENT_PROMPT)>> \o messages \o dispatch_messages

\* self.llm(...) returns `response`; dispatch appends it to the working set.
CallModel(response) ==
    /\ pc = "AWAITING_MODEL"
    /\ response \in ToolCallResponses => Rounds < MaxRounds
    /\ pc' = "MODEL_RESPONDED"
    /\ select_tool_response' = Some(response)
    /\ dispatch_messages' = Append(dispatch_messages, response)
    /\ llm_log' = Append(llm_log, [context |-> Context, response |-> response])
    /\ UNCHANGED <<messages, op, user_prompt, handler_calls, raised, answer,
                   printed, session_before, completed>>
    /\ UNCHANGED other_vars

\* A faulty variant of Inspect: the role is not tested, and reading tool_calls
\* of a message that has none raises.
Inspect_without_role_test(response) ==
    IF response.role # "assistant" THEN "RAISED"
    ELSE IF response.tool_calls = None THEN "DONE"
    ELSE IF response.tool_calls[1] = <<>> THEN "RAISED"
    ELSE "EXECUTING_TOOL"

\* A faulty variant of Inspect: a final answer does not leave the loop.
Inspect_without_break(response) ==
    IF response.role # "assistant" THEN "DONE"
    ELSE IF response.tool_calls = None THEN "AWAITING_MODEL"
    ELSE IF response.tool_calls[1] = <<>> THEN "RAISED"
    ELSE "EXECUTING_TOOL"

\* A faulty variant of Inspect: a degraded message of the adapter is not
\* taken as an answer, the adapter is called again.
Inspect_retrying(response) ==
    IF response.role # "assistant" THEN "AWAITING_MODEL"
    ELSE IF response.tool_calls = None THEN "DONE"
    ELSE IF response.tool_calls[1] = <<>> THEN "RAISED"
    ELSE "EXECUTING_TOOL"

\* The branch after the adapter call: "break", or on to the tool.  The else
\* branch reads tool_calls[0]: an IndexError when the list is empty.
Inspect(response) ==
    IF response.role # "assistant" THEN "DONE"
    ELSE IF response.tool_calls = None THEN "DONE"
    ELSE IF response.tool_calls[1] = <<>> THEN "RAISED"
    ELSE "EXECUTING_TOOL"

InspectResponse ==
    /\ pc = "MODEL_RESPONDED"
    /\ pc' = Inspect(select_tool_response[1])
    /\ raised' = IF pc' = "RAISED"
                 THEN Some([type |-> "IndexError",
                            value |-> "list index out of range"])
                 ELSE None
    /\ UNCHANGED <<messages, dispatch_messages, op, user_prompt,
                   select_tool_response, llm_log,
                   handler_calls, answer, printed, session_before, completed>>
    /\ UNCHANGED other_vars

\* A faulty variant of ToolResponse: the exception's message without the prefix.
ToolResponse_without_prefix(r) == r.value

\* "except Exception as e" does not catch what run_tool raised: the
\* exception leaves the try statement and dispatch.
Escapes(r) == r.kind = "raise" /\ r.type \notin ExceptionClasses

\* tool_response after the try statement, for an r that does not escape:
\* what run_tool returned, or the fixed prefix + str(e) for the exception
\* that "except Exception as e" caught.
ToolResponse(r) ==
    IF r.kind = "raise" /\ r.type \in ExceptionClasses
    THEN TOOL_ERROR_PREFIX \o r.value
    ELSE r.value

\* A faulty variant of ToolResult: tool_call_id is not passed and keeps its default.
ToolResult_without_id(response, tool_response) ==
    ToolMessage(PyNone, tool_response, FirstToolCall(response).function_name)

\* The ToolMessage dispatch appends after the tool ran.
ToolResult(response, tool_response) ==
    ToolMessage(FirstToolCall(response).tool_call_id,
                tool_response,
                FirstToolCall(response).function_name)

\* The assistant message once the dict of its first tool call holds
\* function_args.  run_tool is given the object that select_tool_response
\* names and that is the last element of the working set: what run_tool does
\* to the dict shows in both.
WithFunctionArgs(llm_response, function_args) ==
    [llm_response EXCEPT !.tool_calls[1][1].function_args = function_args]

\* The working set once run_tool is over.
AfterRunTool(working_set, function_args) ==
    [working_set EXCEPT ![Len(working_set)] =
        WithFunctionArgs(working_set[Len(working_set)], function_args)]

\* One entry of handler_calls per run_tool: what run_tool did, and after
\* which adapter call.
RunRecord(r) == [result |-> [kind |-> r.kind, type |-> r.type,
                             value |-> r.value],
                 called |-> r.called,
                 after_call |-> llm_calls]

\* A faulty variant of ExecuteTool: a tool that raised leaves no ToolMessage.
ExecuteTool_silent_on_failure(outcome) ==
    /\ pc = "EXECUTING_TOOL"
    /\ LET response == select_tool_response[1]
           r == run_tool(response, outcome)
       IN  /\ dispatch_messages' =
                 IF r.kind = "raise"
                 THEN AfterRunTool(dispatch_messages, r.function_args)
                 ELSE Append(AfterRunTool(dispatch_messages, r.function_args),
                             ToolResult(response, ToolResponse(r)))
           /\ select_tool_response' =
                 Some(WithFunctionArgs(response, r.function_args))
           /\ handler_calls' = Append(handler_calls, RunRecord(r))
           /\ pc' = IF Escapes(r) THEN "RAISED" ELSE "AWAITING_MODEL"
           /\ raised' = IF Escapes(r)
                        THEN Some([type |-> r.type, value |-> r.value])
                        ELSE raised
    /\ UNCHANGED <<messages, op, user_prompt, llm_log, answer,
                   printed, session_before, completed>>
    /\ UNCHANGED other_vars

\* A faulty variant of ExecuteTool: the loop gives up after its second tool
\* round.
ExecuteTool_capped(outcome) ==
    /\ pc = "EXECUTING_TOOL"
    /\ LET response == select_tool_response[1]
           r == run_tool(response, outcome)
       IN  /\ dispatch_messages' =
                 IF Escapes(r)
                 THEN AfterRunTool(dispatch_messages, r.function_args)
                 ELSE Append(AfterRunTool(dispatch_messages, r.function_args),
                             ToolResult(response, ToolResponse(r)))
           /\ select_tool_response' =
                 Some(WithFunctionArgs(response, r.function_args))
           /\ handler_calls' = Append(handler_calls, RunRecord(r))
           /\ pc' = IF Escapes(r) THEN "RAISED"
                    ELSE IF Rounds >= 1 THEN "DONE"
                    ELSE "AWAITING_MODEL"
           /\ raised' = IF Escapes(r)
                        THEN Some([type |-> r.type, value |-> r.value])
                        ELSE raised
    /\ UNCHANGED <<messages, op, user_prompt, llm_log, answer,
                   printed, session_before, completed>>
    /\ UNCHANGED other_vars

\* The try statement around run_tool and what follows it.  run_tool returns,
\* or raises an exception that "except Exception" catches: the ToolMessage
\* is appended to the working set and the loop goes round.  run_tool raises
\* an exception that is not an Exception: it leaves dispatch, and no
\* ToolMessage is appended.
ExecuteTool(outcome) ==
    /\ pc = "EXECUTING_TOOL"
    /\ LET response == select_tool_response[1]
           r == run_tool(response, outcome)
       IN  /\ dispatch_messages' =
                 IF Escapes(r)
                 THEN AfterRunTool(dispatch_messages, r.function_args)
                 ELSE Append(AfterRunTool(dispatch_messages, r.function_args),
                             ToolResult(response, ToolResponse(r)))
           /\ select_tool_response' =
                 Some(WithFunctionArgs(response, r.function_args))
           /\ handler_calls' = Append(handler_calls, RunRecord(r))
           /\ pc' = IF Escapes(r) THEN "RAISED" ELSE "AWAITING_MODEL"
           /\ raised' = IF Escapes(r)
                        THEN Some([type |-> r.type, value |-> r.value])
                        ELSE raised
    /\ UNCHANGED <<messages, op, user_prompt, llm_log, answer,
                   printed, session_before, completed>>
    /\ UNCHANGED other_vars

\* The characters of a content.  A content without a backquote is kept whole,
\* as one element: highlight_code returns such a text as it is.
Characters(content) ==
    CASE content = CODE_ANSWER ->
             <<"a", "b">> \o PYTHON_FENCE \o <<"NL", "x", "NL">> \o FENCE
      [] content = OPEN_ANSWER ->
             <<"a", "b">> \o PYTHON_FENCE \o <<"NL", "x">>
      [] OTHER -> <<content>>

\* utils.highlight_code(text, self.config.colorscheme) in Agent.print: how
\* the call ends for each content an adapter response has, and for any other
\* text.
Highlighted ==
    [content \in {r.content : r \in FinalResponses \cup ToolCallResponses} |->
        highlight_code(Characters(content))]

AgentPrint(text) ==
    IF text \in DOMAIN Highlighted THEN Highlighted[text]
    ELSE highlight_code(Characters(text))

\* After dispatch returned: self.messages.extend(self.dispatch_messages);
\* Agent.print passes the content of the last message through
\* utils.highlight_code and prints the result; interact_functional then
\* returns the content (interact returns None).  When highlight_code raises
\* (its text grows on every pass until no memory is left) the exception
\* leaves Agent.print and the interaction: the session is extended, the text
\* is not printed and nothing is returned.
Merge ==
    /\ pc = "DONE"
    /\ pc' = "idle"
    /\ messages' = messages \o dispatch_messages
    /\ LET content == Last(messages').content
           shown == AgentPrint(content)
       IN  IF shown.kind = "return"
           THEN /\ printed' = Some(shown.value)
                /\ answer' = IF op = "interact_functional"
                             THEN Some(content)
                             ELSE None
                /\ raised' = None
                /\ completed' = Append(completed, dispatch_messages)
           ELSE /\ printed' = None
                /\ answer' = None
                /\ raised' = Some([type |-> shown.value, value |-> ""])
                /\ completed' = completed
    /\ UNCHANGED <<dispatch_messages, op, user_prompt, select_tool_response,
                   llm_log, handler_calls, session_before>>
    /\ UNCHANGED other_vars

\* A faulty variant of Propagate: the caller merges the working set of the
\* dispatch that raised.
Propagate_merging ==
    /\ pc = "RAISED"
    /\ pc' = "idle"
    /\ messages' = messages \o dispatch_messages
    /\ UNCHANGED <<dispatch_messages, op, user_prompt,
                   select_tool_response, llm_log,
                   handler_calls, raised, answer, printed, session_before,
                   completed>>
    /\ UNCHANGED other_vars

\* The exception leaves dispatch and then interact / interact_functional:
\* the merge is skipped.
Propagate ==
    /\ pc = "RAISED"
    /\ pc' = "idle"
    /\ UNCHANGED <<messages, dispatch_messages, op, user_prompt,
                   select_tool_response, llm_log,
                   handler_calls, raised, answer, printed, session_before,
                   completed>>
    /\ UNCHANGED other_vars

Next ==
    \/ \E o \in Operations, prompt \in Prompts : StartDispatch(o, prompt)
    \/ \E response \in FinalResponses \cup ToolCallResponses : CallModel(response)
    \/ InspectResponse
    \/ \E outcome \in HandlerOutcomes : ExecuteTool(outcome)
    \/ Merge
    \/ Propagate

Spec == Init /\ [][Next]_vars

----------------------------------------------------------------------------
(* Properties *)

\* The handler calls (tool.obj(**tool_args)) made so far by the current
\* dispatch.
Calls == { handler_calls[i].called[1] :
             i \in { j \in 1..Len(handler_calls) : handler_calls[j].called # None } }

IsFinalAnswer(m) ==
    /\ m.role = "assistant"
    /\ m.tool_calls = None \/ m.tool_calls = Some(<<>>)

\* An exception has left dispatch (the one raised is not that of Agent.print).
DispatchRaised == raised # None /\ raised[1].type # "MemoryError"

\* C1: no exception propagates out of Agent.dispatch, whatever the adapter
\* returns and whatever the handlers do.
C1_NoExceptionLeavesDispatch == pc # "RAISED" /\ ~DispatchRaised

\* C2: once the adapter has returned an assistant message whose tool_calls is
\* None or an empty list, dispatch is over (DONE): it did not raise, it ran
\* no tool and appended nothing after that message, which carries the answer.
C2_EmptyOrAbsentToolCallsEndInDone ==
    (/\ pc \notin {"idle", "AWAITING_MODEL", "MODEL_RESPONDED"}
     /\ IsFinalAnswer(select_tool_response[1]))
    => /\ pc = "DONE"
       /\ raised = None
       /\ Last(dispatch_messages) = select_tool_response[1]

\* C3: every call of a handler that declares user_prompt binds user_prompt to
\* the raw prompt of the current dispatch.
C3_UserPromptIsTheRawPrompt ==
    \A c \in Calls :
        "user_prompt" \in Range(Signature(c.name))
        => /\ "user_prompt" \in DOMAIN c.tool_args
           /\ c.tool_args["user_prompt"] = user_prompt

\* C4: the arguments passed to the handler are A[k] for the keys of A in P,
\* None for the keys of P not in A, and no key of A outside P (P the declared
\* parameters other than user_prompt, which only the agent may bind).
C4_ArgumentsAreReconciled ==
    \A c \in Calls :
        LET P == Range(Signature(c.name)) \ {"user_prompt"}
            A == c.function_args
        IN  /\ \A k \in P :
                /\ k \in DOMAIN c.tool_args
                /\ c.tool_args[k] = IF k \in DOMAIN A THEN A[k] ELSE PyNone
            /\ \A k \in DOMAIN c.tool_args \ P :
                /\ k = "user_prompt"
                /\ c.tool_args[k] = user_prompt

\* C5: a value the LLM puts under the key user_prompt never reaches the
\* handler.
C5_LlmUserPromptIsNotForwarded ==
    \A c \in Calls :
        "user_prompt" \in DOMAIN c.function_args
        => ~ /\ "user_prompt" \in DOMAIN c.tool_args
             /\ c.tool_args["user_prompt"] = c.function_args["user_prompt"]

\* The i-th tool round of the current dispatch: the assistant message that
\* asked for it is the 2i-th message of the working set, the ToolMessage
\* that answers it the (2i+1)-th.
RoundsDone == 1..Len(handler_calls)

\* What run_tool raised in the i-th round left dispatch.
Escaped(i) ==
    /\ handler_calls[i].result.kind = "raise"
    /\ handler_calls[i].result.type \notin ExceptionClasses

\* The rounds after which the loop went on: run_tool returned, or raised an
\* exception that was caught.
Answered == {i \in RoundsDone : ~Escaped(i)}

\* C6: a tool round acts on tool_calls[0] only.  Every round follows its own
\* adapter call (at most one handler call between two adapter calls), the
\* handler called, if any, is the one the first tool call names, with the
\* first tool call's arguments, and every round after which the loop went on
\* appended exactly one ToolMessage, which carries the id and name of the
\* first tool call.  A round whose exception left dispatch is the last: it
\* appended nothing and no adapter call follows it.
C6_OnlyTheFirstToolCall ==
    /\ Cardinality({ k \in 1..Len(dispatch_messages) :
                       dispatch_messages[k].role = "tool" })
         = Cardinality(Answered)
    /\ Len(handler_calls) <= llm_calls
    /\ \A i \in RoundsDone :
        LET asked == llm_log[i].response.tool_calls[1]
            run == handler_calls[i]
        IN  /\ run.after_call = i
            /\ Len(dispatch_messages) >= 2 * i
            /\ dispatch_messages[2 * i] = llm_log[i].response
            /\ run.called # None
               => /\ run.called[1].name = asked[1].function_name
                  /\ run.called[1].function_args = asked[1].function_args
            /\ i \in Answered
               => /\ Len(dispatch_messages) >= 2 * i + 1
                  /\ dispatch_messages[2 * i + 1].role = "tool"
                  /\ dispatch_messages[2 * i + 1].tool_call_id
                       = asked[1].tool_call_id
                  /\ dispatch_messages[2 * i + 1].name = asked[1].function_name
            /\ Escaped(i)
               => /\ i = Len(handler_calls)
                  /\ i = llm_calls
                  /\ Len(dispatch_messages) = 2 * i
                  /\ pc \in {"RAISED", "idle"}

\* C6 witness: a round has answered an assistant message with two tool calls
\* whose ids differ, and the adapter has been called again.
C6_Witness ==
    /\ llm_calls >= 2
    /\ \E i \in RoundsDone :
        /\ Len(llm_log[i].response.tool_calls[1]) >= 2
        /\ llm_log[i].response.tool_calls[1][1].tool_call_id
             # llm_log[i].response.tool_calls[1][2].tool_call_id
        /\ handler_calls[i].called # None

\* C7: a round whose first tool call names an unregistered tool calls no
\* handler and raises nothing; its ToolMessage has the fixed content; the
\* loop goes back to the adapter, and when the adapter's next response is a
\* final answer that was the last adapter call.
C7_UnknownToolIsReported ==
    \A i \in RoundsDone :
        llm_log[i].response.tool_calls[1][1].function_name \notin RegisteredTools
        => /\ handler_calls[i].called = None
           /\ handler_calls[i].result.kind = "return"
           /\ dispatch_messages[2 * i + 1] =
                ToolMessage(llm_log[i].response.tool_calls[1][1].tool_call_id,
                            "The LLM tried to call a function that does not exist.",
                            llm_log[i].response.tool_calls[1][1].function_name)
           /\ Len(dispatch_messages) = 2 * i + 1 => pc = "AWAITING_MODEL"
           /\ (llm_calls > i /\ IsFinalAnswer(llm_log[i + 1].response)
                 /\ pc # "MODEL_RESPONDED")
              => /\ llm_calls = i + 1
                 /\ pc \notin {"AWAITING_MODEL", "EXECUTING_TOOL"}

\* C7 witness: an unknown tool was reported and the next adapter call gave the
\* final answer, with which dispatch returned.
C7_Witness ==
    /\ pc = "DONE"
    /\ llm_calls = 2
    /\ llm_log[1].response \in ToolCallResponses
    /\ llm_log[1].response.tool_calls[1][1].function_name = "does_not_exist"
    /\ llm_log[2].response = AssistantMessage("final", None)
    /\ handler_calls[1].called = None

\* C8 as claimed: when the call of a known tool's handler raises, whatever
\* the exception, the round's ToolMessage is the fixed prefix followed by the
\* exception's message, the loop goes back to the adapter, and that exception
\* is not what leaves dispatch.
C8_EveryHandlerExceptionIsReported ==
    \A i \in RoundsDone :
        (handler_calls[i].called # None /\ handler_calls[i].called[1].kind = "raise")
        => /\ Len(dispatch_messages) >= 2 * i + 1
           /\ dispatch_messages[2 * i + 1] =
                ToolMessage(llm_log[i].response.tool_calls[1][1].tool_call_id,
                            "An error occurred while running the tool: "
                                \o handler_calls[i].called[1].value,
                            llm_log[i].response.tool_calls[1][1].function_name)
           /\ Len(dispatch_messages) = 2 * i + 1 => pc = "AWAITING_MODEL"
           /\ raised # None => raised[1].type # handler_calls[i].called[1].type

\* C8 amended: when the call of a known tool's handler raises an exception
\* that derives from Exception, the round's ToolMessage is the fixed prefix
\* followed by the exception's message, the loop goes back to the adapter,
\* and that exception is not what leaves dispatch.  When it raises an
\* exception that does not derive from Exception, no ToolMessage is
\* appended, no adapter call follows, and that exception leaves dispatch.
C8_HandlerExceptionIsReported ==
    \A i \in RoundsDone :
        (handler_calls[i].called # None /\ handler_calls[i].called[1].kind = "raise")
        => IF handler_calls[i].called[1].type \in {"Exception", "TypeError"}
           THEN /\ Len(dispatch_messages) >= 2 * i + 1
                /\ dispatch_messages[2 * i + 1] =
                     ToolMessage(llm_log[i].response.tool_calls[1][1].tool_call_id,
                                 "An error occurred while running the tool: "
                                     \o handler_calls[i].called[1].value,
                                 llm_log[i].response.tool_calls[1][1].function_name)
                /\ Len(dispatch_messages) = 2 * i + 1 => pc = "AWAITING_MODEL"
                /\ raised # None
                   => raised[1].type # handler_calls[i].called[1].type
           ELSE /\ Len(dispatch_messages) = 2 * i
                /\ i = Len(handler_calls)
                /\ i = llm_calls
                /\ pc \in {"RAISED", "idle"}
                /\ raised = Some([type |-> handler_calls[i].called[1].type,
                                  value |-> handler_calls[i].called[1].value])

\* C8 witness: a handler's body ran and raised an Exception, and the adapter
\* was called again afterwards.
C8_Witness ==
    /\ llm_calls >= 2
    /\ handler_calls[1].called # None
    /\ handler_calls[1].called[1].entered
    /\ handler_calls[1].called[1].kind = "raise"
    /\ handler_calls[1].called[1].type = "Exception"

\* Dispatch has left its loop.
Ended == pc \in {"idle", "DONE", "RAISED"} /\ llm_calls > 0

\* C9: a dispatch that ended after the adapter asked for a registered tool on
\* its first turn and gave a final answer on its second has a working set of
\* exactly four messages: UserMessage, that AssistantMessage, a ToolMessage
\* with the tool call's id, the final AssistantMessage.
C9_ToolThenFinal ==
    (/\ Ended
     /\ llm_calls >= 2
     /\ llm_log[1].response \in ToolCallResponses
     /\ llm_log[1].response.tool_calls[1][1].function_name \in RegisteredTools
     /\ IsFinalAnswer(llm_log[2].response))
    => /\ Len(dispatch_messages) = 4
       /\ llm_calls = 2
       /\ dispatch_messages[1] = UserMessage("\n\n### Question ###\n" \o user_prompt)
       /\ dispatch_messages[2] = llm_log[1].response
       /\ dispatch_messages[3].role = "tool"
       /\ dispatch_messages[3].tool_call_id
            = dispatch_messages[2].tool_calls[1][1].tool_call_id
       /\ dispatch_messages[4] = llm_log[2].response

\* C9 witness: such a dispatch returned, the tool call being one of two in
\* its turn.
C9_Witness ==
    /\ pc = "DONE"
    /\ llm_calls = 2
    /\ llm_log[1].response \in ToolCallResponses
    /\ Len(llm_log[1].response.tool_calls[1]) = 2
    /\ llm_log[1].response.tool_calls[1][1].function_name = "Echo"
    /\ llm_log[2].response = AssistantMessage("final", None)

\* C10: when the adapter's first response is a final AssistantMessage, the
\* dispatch is over after that one adapter call, whatever the prompt and the
\* session, and its working set is the UserMessage and that AssistantMessage.
C10_FinalAtOnce ==
    (llm_calls >= 1 /\ IsFinalAnswer(llm_log[1].response))
    => /\ llm_calls = 1
       /\ pc \in {"MODEL_RESPONDED", "DONE", "RAISED", "idle"}
       /\ llm_log[1].response.tool_calls = None /\ pc # "MODEL_RESPONDED"
          => pc \in {"DONE", "idle"} /\ ~DispatchRaised
       /\ handler_calls = <<>>
       /\ dispatch_messages =
            <<UserMessage("\n\n### Question ###\n" \o user_prompt),
              llm_log[1].response>>

\* C10 witness: a second interaction, over a session that holds an earlier
\* one, returned after one adapter call.
C10_Witness ==
    /\ pc = "DONE"
    /\ messages # <<>>
    /\ llm_calls = 1
    /\ llm_log[1].response = AssistantMessage("final", None)

\* C11: once the adapter has returned a message whose role is not assistant,
\* dispatch is over: that was the last adapter call, no tool ran after it,
\* nothing was raised, the message is the last of the working set, and after
\* the merge its content is what the interaction printed and what
\* interact_functional returned.
C11_SentinelEndsDispatch ==
    \A i \in 1..llm_calls :
        (/\ llm_log[i].response.role # "assistant"
         /\ i < llm_calls \/ pc # "MODEL_RESPONDED")
        => /\ i = llm_calls
           /\ pc \in {"DONE", "idle"}
           /\ raised = None
           /\ Len(handler_calls) = i - 1
           /\ Last(dispatch_messages) = llm_log[i].response
           /\ pc = "idle"
              => /\ printed = Some(Characters(llm_log[i].response.content))
                 /\ op = "interact_functional"
                    => answer = Some(llm_log[i].response.content)

\* C11 witness: interact_functional returned the sentinel's content, the
\* sentinel having come after a tool round.
C11_Witness ==
    /\ pc = "idle"
    /\ op = "interact_functional"
    /\ llm_calls = 2
    /\ llm_log[2].response.role = "user"
    /\ answer = Some(llm_log[2].response.content)

\* An interaction has returned to its caller (the merge is done).
Returned == pc = "idle" /\ llm_calls > 0 /\ raised = None

\* C12: an interaction whose dispatch returned, once it is over (interact or
\* interact_functional), left the session equal to the session before
\* followed by the working set of its one dispatch, and returned the content
\* of the working set's final message to its caller.
C12_BothReturnTheAnswer ==
    (pc = "idle" /\ llm_calls > 0 /\ ~DispatchRaised)
    => /\ dispatch_messages[1] = UserMessage("\n\n### Question ###\n" \o user_prompt)
       /\ messages = session_before \o dispatch_messages
       /\ raised = None
       /\ answer = Some(Last(dispatch_messages).content)

\* C13: a step changes the session only if it is the merge that follows a
\* dispatch that returned, and that step appends the whole working set.
C13_SessionWrittenOnlyByMerge ==
    [][messages' # messages
         => /\ pc = "DONE"
            /\ pc' = "idle"
            /\ messages' = messages \o dispatch_messages]_vars

\* C13 witness: a dispatch over a session that is not empty is back at the
\* adapter after a tool round, the session as it was when dispatch started.
C13_Witness ==
    /\ pc = "AWAITING_MODEL"
    /\ Len(handler_calls) >= 1
    /\ messages # <<>>
    /\ messages = session_before

IsPrefix(s, t) == Len(s) <= Len(t) /\ s = SubSeq(t, 1, Len(s))

RECURSIVE Concat(_)
Concat(ss) == IF ss = <<>> THEN <<>> ELSE Concat(SubSeq(ss, 1, Len(ss) - 1)) \o Last(ss)

\* C14: the session is empty at construction, every step leaves the old
\* session a prefix of the new one, and the session is always the
\* concatenation of the working sets of the interactions that returned to
\* their caller.
C14_SessionIsAppendOnly ==
    /\ messages = <<>>
    /\ [](messages = Concat(completed))
    /\ [][IsPrefix(messages, messages')]_vars

\* C15: the context of the i-th adapter call of a dispatch is the
\* SystemMessage with the agent prompt, the session as it was when dispatch was
\* called, and the working set at that call (its first 2i-1 messages); the
\* working set starts with the UserMessage of the header and the raw prompt.
C15_ContextOfEveryCall ==
    \A i \in 1..llm_calls :
        /\ llm_log[i].context =
             <<[role |-> "system",
                content |-> "\nYou are an assistant that answers question about a codebase. "
                  \o "All of the user's questions should be about this particular codebase, "
                  \o "and you will be given tools that you can use to help you answer "
                  \o "questions about the codebase.\n"]>>
             \o session_before
             \o SubSeq(dispatch_messages, 1, 2 * i - 1)
        /\ dispatch_messages[1] =
             [role |-> "user", content |-> "\n\n### Question ###\n" \o user_prompt]

\* C15 witness: the second adapter call of a dispatch over a session that is
\* not empty.
C15_Witness ==
    /\ llm_calls = 2
    /\ session_before # <<>>
    /\ Len(llm_log[2].context) = 1 + Len(session_before) + 3

----------------------------------------------------------------------------
(* The ollama chat function (src/src/groundcrew/llm/ollama_api.py)         *)
(*                                                                         *)
(* A dict of the backend is a function from its keys; a key may be absent. *)
(* The outcome of a call is Return(value) or Raise(exception).             *)

\* The message classes of ollama_api.py.  The field class names the class of
\* the object; it is no field of the dataclass.  The messages of
\* gc_dataclasses.py (SystemMessage, UserMessage, AssistantMessage and
\* ToolMessage above) have no class field: they are objects of other classes.
OllamaSystemMessage(content) ==
    [class |-> "ollama_api.SystemMessage", role |-> "system",
     content |-> content]

OllamaUserMessage(content) ==
    [class |-> "ollama_api.UserMessage", role |-> "user", content |-> content]

OllamaAssistantMessage(content, tool_calls) ==
    [class |-> "ollama_api.AssistantMessage", role |-> "assistant",
     content |-> content, tool_calls |-> tool_calls]

\* ToolMessage of ollama_api.py: no name field.
OllamaToolMessage(content, tool_call_id) ==
    [class |-> "ollama_api.ToolMessage", role |-> "tool",
     content |-> content, tool_call_id |-> tool_call_id]

\* isinstance(message, classes), for classes of ollama_api.py
isinstance(message, classes) ==
    /\ "class" \in DOMAIN message
    /\ message.class \in classes

\* json.loads on the argument strings a backend sends.
json_loads(s) ==
    CASE s = "{\"a\": \"1\"}" -> Return([a |-> "1"])
      [] s = "{}" -> Return(<<>>)
      [] OTHER -> Raise("JSONDecodeError")

\* One element of the list comprehension of message_from_api_response:
\* tc['id'], tc['type'], tc['function']['name'] and the parsed arguments, read
\* in this order.
ParseToolCall(tc) ==
    IF "id" \notin DOMAIN tc THEN Raise("KeyError: 'id'")
    ELSE IF "type" \notin DOMAIN tc THEN Raise("KeyError: 'type'")
    ELSE IF "function" \notin DOMAIN tc THEN Raise("KeyError: 'function'")
    ELSE IF "name" \notin DOMAIN tc.function THEN Raise("KeyError: 'name'")
    ELSE IF "arguments" \notin DOMAIN tc.function
         THEN Raise("KeyError: 'arguments'")
    ELSE LET args == json_loads(tc.function.arguments)
         IN  IF args.kind = "raise" THEN args
             ELSE Return([tool_call_id |-> tc.id,
                          tool_type |-> tc.type,
                          function_name |-> tc.function.name,
                          function_args |-> args.value])

\* The list comprehension: the first element that raises ends it.
ParseToolCalls(tcs) ==
    LET parsed == [i \in 1..Len(tcs) |-> ParseToolCall(tcs[i])]
        failed == {i \in 1..Len(tcs) : parsed[i].kind = "raise"}
    IN  IF failed # {}
        THEN parsed[CHOOSE i \in failed : \A j \in failed : i <= j]
        ELSE Return([i \in 1..Len(tcs) |-> parsed[i].value])

\* message_from_api_response: response['message'], then the tool calls, then
\* completion['content'].  The tool_calls of a completion are an Optional:
\* None, or Some(list).
message_from_api_response(response) ==
    IF "message" \notin DOMAIN response THEN Raise("KeyError: 'message'")
    ELSE LET completion == response.message
             has_tool_calls ==
                 /\ "tool_calls" \in DOMAIN completion
                 /\ completion.tool_calls # None
             tool_calls ==
                 IF has_tool_calls
                 THEN ParseToolCalls(completion.tool_calls[1])
                 ELSE Return(<<>>)
         IN  IF tool_calls.kind = "raise" THEN tool_calls
             ELSE IF "content" \notin DOMAIN completion
                  THEN Raise("KeyError: 'content'")
             ELSE Return(OllamaAssistantMessage(
                      completion.content,
                      IF has_tool_calls THEN Some(tool_calls.value)
                      ELSE None))

\* The loop of chat_func over messages[start_idx:]: does it raise?
AlternationBroken(chat_context) ==
    LET start_idx ==
            IF isinstance(chat_context[1], {"ollama_api.SystemMessage"})
            THEN 1 ELSE 0
        rest == SubSeq(chat_context, start_idx + 1, Len(chat_context))
    IN  \E k \in 1..Len(rest) :
            IF (k - 1) % 2 = 0
            THEN ~isinstance(rest[k], {"ollama_api.UserMessage",
                                       "ollama_api.ToolMessage"})
            ELSE ~isinstance(rest[k], {"ollama_api.AssistantMessage"})

\* The ValueError the loop raises: the one of the first message that is not
\* of the class its place asks for.
AlternationError(chat_context) ==
    LET start_idx ==
            IF isinstance(chat_context[1], {"ollama_api.SystemMessage"})
            THEN 1 ELSE 0
        rest == SubSeq(chat_context, start_idx + 1, Len(chat_context))
        broken == {k \in 1..Len(rest) :
                     IF (k - 1) % 2 = 0
                     THEN ~isinstance(rest[k], {"ollama_api.UserMessage",
                                                "ollama_api.ToolMessage"})
                     ELSE ~isinstance(rest[k], {"ollama_api.AssistantMessage"})}
        first == CHOOSE k \in broken : \A j \in broken : k <= j
    IN  IF (first - 1) % 2 = 0
        THEN "ValueError: Expected UserMessage or ToolMessage"
        ELSE "ValueError: Expected AssistantMessage"

\* client.chat(...) followed by message_from_api_response, inside the try:
\* only ollama.ResponseError is caught.
CallBackend(b) ==
    CASE b.kind = "ResponseError" ->
             Return(OllamaUserMessage(API_ERROR \o b.error))
      [] b.kind = "ConnectionError" -> Raise("ConnectionError")
      [] b.kind = "ok" -> message_from_api_response(b.response)

chat_func(chat_context, b) ==
    IF chat_context = <<>>
    THEN Raise("ValueError: Messages list cannot be empty")
    ELSE IF AlternationBroken(chat_context)
    THEN Raise(AlternationError(chat_context))
    ELSE CallBackend(b)

\* The contexts a caller passes: of messages of ollama_api.py, and the last
\* two as Agent.dispatch builds them, of messages of other classes.
ChatContexts ==
    { <<>>,
      <<OllamaUserMessage("q")>>,
      <<OllamaSystemMessage("s"), OllamaUserMessage("q")>>,
      <<OllamaSystemMessage("s"), OllamaUserMessage("q"),
        OllamaAssistantMessage(
            "", Some(<<ToolCall("Echo", [a |-> "1"], "call_0")>>)),
        OllamaToolMessage("out", "call_0")>>,
      <<OllamaSystemMessage("s"), OllamaAssistantMessage("hi", None)>>,
      <<OllamaUserMessage("q"), OllamaUserMessage("q")>>,
      <<SystemMessage("s"), UserMessage("q")>>,
      <<OllamaSystemMessage("s"), OllamaUserMessage("q"),
        OllamaAssistantMessage(
            "", Some(<<ToolCall("Echo", [a |-> "1"], "call_0")>>)),
        ToolMessage("call_0", "out", "Echo")>> }

\* The tool calls a backend sends: well formed, without an id, with arguments
\* that are not JSON.
BackendToolCalls ==
    { [id |-> "call_0", type |-> "function",
       function |-> [name |-> "Echo", arguments |-> "{\"a\": \"1\"}"]],
      [id |-> "call_0", type |-> "function",
       function |-> [name |-> "Bare", arguments |-> "{}"]],
      [type |-> "function",
       function |-> [name |-> "Echo", arguments |-> "{\"a\": \"1\"}"]],
      [id |-> "call_0", type |-> "function",
       function |-> [name |-> "Echo", arguments |-> "{a: 1"]] }

\* The dicts client.chat returns.
BackendResponses ==
    { [message |-> [role |-> "assistant", content |-> "hi"]],
      [message |-> [role |-> "assistant", content |-> "hi",
                    tool_calls |-> None]],
      [message |-> [role |-> "assistant", content |-> "",
                    tool_calls |-> Some(<<>>)]],
      [message |-> [role |-> "assistant", tool_calls |-> None]],
      [done |-> "true"] }
    \cup { [message |-> [role |-> "assistant", content |-> "",
                         tool_calls |-> Some(<<tc>>)]] :
               tc \in BackendToolCalls }

\* What client.chat does: it returns a dict, raises ollama.ResponseError (the
\* backend answered with an error status), or raises ConnectionError (the
\* backend cannot be reached).
Backends ==
    { [kind |-> "ok", response |-> r] : r \in BackendResponses }
    \cup { [kind |-> "ResponseError", error |-> e] :
               e \in {"model not found", ""} }
    \cup { [kind |-> "ConnectionError"] }

\* A caller is about to call the chat function.
InitChat ==
    /\ AgentInit
    /\ NoLive
    /\ NoServe
    /\ NoSetup
    /\ NoHighlight
    /\ NoWire
    /\ chat_messages \in ChatContexts
    /\ backend \in Backends
    /\ chat_result = None

\* chat(messages) is called and ends.
ChatCall ==
    /\ chat_result = None
    /\ chat_result' = Some(chat_func(chat_messages, backend))
    /\ UNCHANGED <<agent_vars, hl_vars, wire_vars, live_vars, serve_vars, setup_vars,
                   chat_messages, backend>>

NextChat == ChatCall

SpecChat == InitChat /\ [][NextChat]_vars

\* C16: the chat function raises only for a programmer error (an empty or
\* badly ordered context); when the backend fails or sends a response that
\* cannot be read, it returns a degraded non-assistant message carrying an
\* error description.
C16_ChatNeverRaisesForTheBackend ==
    chat_result # None =>
        LET result == chat_result[1]
            programmer_error ==
                chat_messages = <<>> \/ AlternationBroken(chat_messages)
            readable ==
                /\ backend.kind = "ok"
                /\ message_from_api_response(backend.response).kind = "return"
        IN  /\ result.kind = "raise" => programmer_error
            /\ ~programmer_error /\ ~readable =>
                   /\ result.kind = "return"
                   /\ result.value.role # "assistant"
                   /\ result.value.content # ""

----------------------------------------------------------------------------
(* Termination of the dispatch loop (agent.py, Agent.dispatch)             *)
(*                                                                         *)
(* The loop is "while True" with one "break"; what it does next depends    *)
(* only on the response just received, so the working set is kept by its   *)
(* last message and the rounds are counted up to MaxLiveRounds: a dispatch *)
(* that goes on for ever is a cycle of finitely many states.               *)

Terminal == {"DONE", "RAISED"}

Min(a, b) == IF a <= b THEN a ELSE b

\* dispatch is called: the question is the working set.
LiveStart(prompt) ==
    /\ live_pc = "idle"
    /\ live_pc' = "AWAITING_MODEL"
    /\ live_response' = None
    /\ live_last' = Some(UserMessage(QUESTION_HEADER \o prompt))
    /\ live_rounds' = 0
    /\ UNCHANGED <<agent_vars, hl_vars, wire_vars, chat_vars, serve_vars, setup_vars>>

\* self.llm(...) returns `response`.
LiveCallModel(response) ==
    /\ live_pc = "AWAITING_MODEL"
    /\ live_pc' = "MODEL_RESPONDED"
    /\ live_response' = Some(response)
    /\ live_last' = Some(response)
    /\ UNCHANGED <<agent_vars, hl_vars, wire_vars, chat_vars, serve_vars, setup_vars, live_rounds>>

\* "break", the IndexError of tool_calls[0], or on to the tool.
LiveInspect ==
    /\ live_pc = "MODEL_RESPONDED"
    /\ live_pc' = Inspect(live_response[1])
    /\ UNCHANGED <<agent_vars, hl_vars, wire_vars, chat_vars, serve_vars, setup_vars,
                   live_response, live_last, live_rounds>>

\* run_tool returns or raises an Exception, the ToolMessage is appended, and
\* the loop goes round; or what run_tool raises leaves dispatch.
LiveExecuteTool(outcome) ==
    /\ live_pc = "EXECUTING_TOOL"
    /\ LET r == run_tool(live_response[1], outcome)
       IN  /\ live_last' = IF Escapes(r) THEN live_last
                           ELSE Some(ToolResult(live_response[1], ToolResponse(r)))
           /\ live_pc' = IF Escapes(r) THEN "RAISED" ELSE "AWAITING_MODEL"
    /\ live_rounds' = Min(live_rounds + 1, MaxLiveRounds)
    /\ UNCHANGED <<agent_vars, hl_vars, wire_vars, chat_vars, serve_vars, setup_vars, live_response>>

\* dispatch has returned, or the exception has left it: the caller goes on.
LiveEnd ==
    /\ live_pc \in Terminal
    /\ live_pc' = "idle"
    /\ UNCHANGED <<agent_vars, hl_vars, wire_vars, chat_vars, serve_vars, setup_vars,
                   live_response, live_last, live_rounds>>

InitLive ==
    /\ AgentInit
    /\ NoChat
    /\ NoLive
    /\ NoServe
    /\ NoSetup
    /\ NoHighlight
    /\ NoWire

NextLive ==
    \/ \E prompt \in Prompts : LiveStart(prompt)
    \/ \E response \in FinalResponses \cup ToolCallResponses : LiveCallModel(response)
    \/ LiveInspect
    \/ \E outcome \in HandlerOutcomes : LiveExecuteTool(outcome)
    \/ LiveEnd

\* Python runs the loop one statement after the other, and every call of the
\* adapter and of a tool returns: a step that can be taken is taken.
SpecLive == InitLive /\ [][NextLive]_vars /\ WF_vars(NextLive)

\* C17 as stated: every dispatch that starts reaches a terminal state (it
\* returns, or fails with an exception), whatever the adapter and the tools do.
C17_EveryDispatchEnds ==
    (live_pc = "AWAITING_MODEL") ~> (live_pc \in Terminal)

\* C17, amended: every dispatch that starts reaches a terminal state (it
\* returns, or an exception leaves it), unless tools are run again and again
\* for ever: the loop has no bound on its rounds.
C17_DispatchEndsUnlessToolsForEver ==
    (<>[](live_pc # "EXECUTING_TOOL"))
        => ((live_pc = "AWAITING_MODEL") ~> (live_pc \in Terminal))

\* A dispatch has returned after at least one tool round.
C17_Witness == live_pc = "DONE" /\ live_rounds >= 1

----------------------------------------------------------------------------
(* The HTTP endpoint (src/src/groundcrew/api_services/app.py)              *)
(*                                                                         *)
(* app.py builds one Agent when the module is loaded; read_item is a plain *)
(* "def", which the framework runs in a pool of threads, so that the       *)
(* requests in progress run agent.interact_functional on the same object,  *)
(* one Python statement at a time each.  The adapter is a stateless stub   *)
(* that answers the last question of the context it is given.              *)

\* The question dispatch makes of a prompt.
Question(prompt) == UserMessage(QUESTION_HEADER \o prompt)

\* The content of the last UserMessage of a context.
LastQuestion(context) ==
    LET asked == {i \in 1..Len(context) : context[i].role = "user"}
    IN  IF asked = {} THEN ""
        ELSE context[CHOOSE i \in asked : \A j \in asked : j <= i].content

\* The stub adapter: a final answer, with no tool call.
StubAdapter(context) == AssistantMessage("answer to" \o LastQuestion(context), None)

\* POST /message/ arrives: read_item calls agent.interact_functional, which
\* calls dispatch.
ServeReceive(t, prompt) ==
    /\ req_pc[t] = "idle"
    /\ req_pc' = [req_pc EXCEPT ![t] = "reset"]
    /\ req_prompt' = [req_prompt EXCEPT ![t] = prompt]
    /\ UNCHANGED <<agent_vars, hl_vars, wire_vars, chat_vars, live_vars, setup_vars,
                   req_context, req_response, req_result, list_id, req_list>>

\* self.dispatch_messages = []: the field names a new, empty list.
ServeReset(t) ==
    /\ req_pc[t] = "reset"
    /\ dispatch_messages' = <<>>
    /\ list_id' = list_id + 1
    /\ req_pc' = [req_pc EXCEPT ![t] = "question"]
    /\ UNCHANGED <<messages, caller_vars, hl_vars, wire_vars, chat_vars, live_vars, setup_vars,
                   req_prompt, req_context, req_response, req_result,
                   req_list>>

\* self.dispatch_messages.append(UserMessage(user_question)), first part:
\* self.dispatch_messages.append is evaluated, which reads the list the
\* field names now; UserMessage(user_question) is then called, and other
\* requests can run meanwhile.
ServeQuestionLoad(t) ==
    /\ req_pc[t] = "question"
    /\ req_list' = [req_list EXCEPT ![t] = list_id]
    /\ req_pc' = [req_pc EXCEPT ![t] = "question_append"]
    /\ UNCHANGED <<agent_vars, hl_vars, wire_vars, chat_vars, live_vars, setup_vars,
                   req_prompt, req_context, req_response, req_result,
                   list_id>>

\* self.dispatch_messages.append(UserMessage(user_question)), second part:
\* the question is appended to the list that was read.  When another request
\* has replaced the list since, that list is no longer the working set and
\* nothing names it: the question is lost.
ServeQuestion(t) ==
    /\ req_pc[t] = "question_append"
    /\ dispatch_messages' = IF req_list[t] = list_id
                            THEN Append(dispatch_messages, Question(req_prompt[t]))
                            ELSE dispatch_messages
    /\ req_pc' = [req_pc EXCEPT ![t] = "call"]
    /\ UNCHANGED <<messages, caller_vars, hl_vars, wire_vars, chat_vars, live_vars, setup_vars,
                   req_prompt, req_context, req_response, req_result,
                   list_id, req_list>>

\* self.llm(...) is called with the context built from the agent's fields as
\* they are now.
ServeCall(t) ==
    /\ req_pc[t] = "call"
    /\ req_context' = [req_context EXCEPT ![t] = Some(Context)]
    /\ req_pc' = [req_pc EXCEPT ![t] = "waiting"]
    /\ UNCHANGED <<agent_vars, hl_vars, wire_vars, chat_vars, live_vars, setup_vars,
                   req_prompt, req_response, req_result, list_id, req_list>>

\* self.llm(...) returns.
ServeAdapterReturns(t) ==
    /\ req_pc[t] = "waiting"
    /\ req_response' = [req_response EXCEPT ![t] = Some(StubAdapter(req_context[t][1]))]
    /\ req_pc' = [req_pc EXCEPT ![t] = "append"]
    /\ UNCHANGED <<agent_vars, hl_vars, wire_vars, chat_vars, live_vars, setup_vars,
                   req_prompt, req_context, req_result, list_id, req_list>>

\* self.dispatch_messages.append(select_tool_response); the response is a
\* final answer, so the loop breaks and dispatch returns.
ServeAppend(t) ==
    /\ req_pc[t] = "append"
    /\ dispatch_messages' = Append(dispatch_messages, req_response[t][1])
    /\ req_pc' = [req_pc EXCEPT ![t] = "extend"]
    /\ UNCHANGED <<messages, caller_vars, hl_vars, wire_vars, chat_vars, live_vars, setup_vars,
                   req_prompt, req_context, req_response, req_result,
                   list_id, req_list>>

\* self.messages.extend(self.dispatch_messages)
ServeExtend(t) ==
    /\ req_pc[t] = "extend"
    /\ messages' = messages \o dispatch_messages
    /\ req_pc' = [req_pc EXCEPT ![t] = "content"]
    /\ UNCHANGED <<dispatch_messages, caller_vars, hl_vars, wire_vars, chat_vars, live_vars,
                   setup_vars, req_prompt, req_context, req_response,
                   req_result, list_id, req_list>>

\* content = self.messages[-1].content; return content.  An empty session
\* makes messages[-1] an IndexError.
ServeContent(t) ==
    /\ req_pc[t] = "content"
    /\ req_result' = [req_result EXCEPT ![t] =
                         IF messages = <<>>
                         THEN Some(Raise("IndexError: list index out of range"))
                         ELSE Some(Return(Last(messages).content))]
    /\ req_pc' = [req_pc EXCEPT ![t] = "returned"]
    /\ UNCHANGED <<agent_vars, hl_vars, wire_vars, chat_vars, live_vars, setup_vars,
                   req_prompt, req_context, req_response, list_id, req_list>>

InitServe ==
    /\ AgentInit
    /\ NoChat
    /\ NoLive
    /\ NoServe
    /\ NoSetup
    /\ NoHighlight
    /\ NoWire

NextServe ==
    \E t \in Requests :
        \/ \E prompt \in Prompts : ServeReceive(t, prompt)
        \/ ServeReset(t)
        \/ ServeQuestionLoad(t)
        \/ ServeQuestion(t)
        \/ ServeCall(t)
        \/ ServeAdapterReturns(t)
        \/ ServeAppend(t)
        \/ ServeExtend(t)
        \/ ServeContent(t)

SpecServe == InitServe /\ [][NextServe]_vars

\* The turn of request t when it is served alone.
OwnAnswer(t) == StubAdapter(<<Question(req_prompt[t])>>)

OwnTurn(t) == <<Question(req_prompt[t]), OwnAnswer(t)>>

\* C18: requests served at the same time do not reset or share one another's
\* working set, each working set is merged once, and each request returns the
\* answer to its own prompt.
C18_RequestsAreIndependent ==
    /\ \A t \in Requests :
          /\ req_pc[t] \in {"call", "waiting", "append"}
                => dispatch_messages = <<Question(req_prompt[t])>>
          /\ req_pc[t] = "extend" => dispatch_messages = OwnTurn(t)
          /\ req_pc[t] = "returned"
                => req_result[t] = Some(Return(OwnAnswer(t).content))
    /\ (\A t \in Requests : req_pc[t] = "returned")
          => messages \in {OwnTurn(1) \o OwnTurn(2), OwnTurn(2) \o OwnTurn(1)}

----------------------------------------------------------------------------
(* setup_tools and parse_tool_schema (src/src/groundcrew/utils.py)         *)
(*                                                                         *)
(* The two loops of setup_tools meet the tool classes one after the other. *)
(* A class is given by its module and name, the properties of its pydantic *)
(* schema in order (a dict keeps the order of insertion), the parameters   *)
(* of its __call__, and whether __call__ is annotated "-> str".            *)

Property(name, has_default) == [name |-> name, has_default |-> has_default]

ToolClass(module, name, properties, call_params, returns_str) ==
    [module |-> module, name |-> name, properties |-> properties,
     call_params |-> call_params, returns_str |-> returns_str]

ToolClasses ==
    { ToolClass("m1", "Echo", <<Property("a", FALSE), Property("b", TRUE)>>,
                <<"user_prompt", "a", "b">>, TRUE),
      ToolClass("m2", "Echo", <<Property("a", FALSE)>>,
                <<"user_prompt", "a", "b">>, TRUE),
      ToolClass("m1", "Bare", <<Property("a", FALSE), Property("z", FALSE)>>,
                <<"a">>, TRUE),
      ToolClass("m2", "Bare", <<Property("user_prompt", FALSE), Property("a", TRUE)>>,
                <<"user_prompt", "a">>, TRUE),
      ToolClass("m3", "Bare", <<Property("a", TRUE)>>, <<"a">>, FALSE),
      ToolClass("m4", "Bare", <<Property("a", TRUE)>>, <<"a">>, TRUE) }

\* the classes one call of setup_tools meets
MaxClasses == 2

ClassLists ==
    UNION { [1..n -> ToolClasses] : n \in 1..MaxClasses }

\* The names of a sequence of properties, in order.
Names(properties) == [i \in 1..Len(properties) |-> properties[i].name]

\* parse_tool_schema: the 'default' key of every property is deleted, and
\* every property is required.
parse_tool_schema(properties) ==
    [properties |-> [i \in 1..Len(properties) |->
                        Property(properties[i].name, FALSE)],
     required |-> Names(properties)]

\* The body of the loops for one class.  "for param_name in tool_args: if
\* param_name not in expected_tool_args: del tool_args[param_name]" deletes
\* from the dict it iterates over: the next step of the iteration raises
\* RuntimeError.  Tool.params is the dict parse_tool_schema has changed.
SetupOne(cls) ==
    IF \E i \in 1..Len(cls.properties) :
           cls.properties[i].name \notin Range(cls.call_params)
    THEN Raise("RuntimeError: dictionary changed size during iteration")
    ELSE IF ~cls.returns_str THEN Raise("AssertionError")
    ELSE Return([name |-> cls.name,
                 params |-> parse_tool_schema(cls.properties).properties,
                 schema |-> parse_tool_schema(cls.properties),
                 obj |-> cls])

\* tools[node.name] = Tool(...)
Register(registry, name, tool) ==
    [n \in DOMAIN registry \cup {name} |->
        IF n = name THEN tool ELSE registry[n]]

InitSetup ==
    /\ AgentInit
    /\ NoChat
    /\ NoLive
    /\ NoServe
    /\ NoHighlight
    /\ NoWire
    /\ setup_queue \in ClassLists
    /\ tools = <<>>
    /\ setup_pc = "running"
    /\ setup_error = None
    /\ setup_log = <<>>
    /\ tool_keys = <<>>
    /\ exports = <<>>

\* One class is met: its Tool is put in the dict, or an exception leaves
\* setup_tools.
SetupClass ==
    /\ setup_pc = "running"
    /\ setup_queue # <<>>
    /\ LET cls == Head(setup_queue)
           r == SetupOne(cls)
       IN  /\ setup_log' = Append(setup_log, [class |-> cls, outcome |-> r])
           /\ IF r.kind = "raise"
              THEN /\ setup_pc' = "raised"
                   /\ setup_error' = Some(r.value)
                   /\ UNCHANGED <<tools, tool_keys>>
              ELSE /\ tools' = Register(tools, cls.name, r.value)
                   /\ tool_keys' = IF cls.name \in DOMAIN tools
                                   THEN tool_keys
                                   ELSE Append(tool_keys, cls.name)
                   /\ UNCHANGED <<setup_pc, setup_error>>
    /\ setup_queue' = Tail(setup_queue)
    /\ UNCHANGED exports
    /\ UNCHANGED <<agent_vars, hl_vars, wire_vars, chat_vars, live_vars, serve_vars>>

\* return tools
SetupReturn ==
    /\ setup_pc = "running"
    /\ setup_queue = <<>>
    /\ setup_pc' = "returned"
    /\ UNCHANGED <<agent_vars, hl_vars, wire_vars, chat_vars, live_vars, serve_vars,
                   setup_queue, tools, setup_error, setup_log, tool_keys,
                   exports>>

\* save_tools_to_yaml is called at most this many times
MaxExports == 2

\* [tool.schema for tool in tools.values()]: the schemas in the order of the
\* dict.
SchemaList(registry, keys) == [i \in 1..Len(keys) |-> registry[keys[i]].schema]

\* A faulty variant of save_tools_to_yaml: every exported tool loses the
\* last property of its schema.
save_tools_to_yaml_trimming ==
    /\ setup_pc = "returned"
    /\ Len(exports) < MaxExports
    /\ exports' = Append(exports,
                         [returned |-> SchemaList(tools, tool_keys),
                          written |-> [tools |-> SchemaList(tools, tool_keys)]])
    /\ tools' = [n \in DOMAIN tools |->
                    [tools[n] EXCEPT
                        !.schema.properties =
                            SubSeq(@, 1, Len(@) - 1),
                        !.schema.required = SubSeq(@, 1, Len(@) - 1)]]
    /\ UNCHANGED <<agent_vars, hl_vars, wire_vars, chat_vars, live_vars,
                   serve_vars, setup_queue, setup_pc, setup_error, setup_log,
                   tool_keys>>

\* save_tools_to_yaml(tools, filename): the schemas are listed, written to
\* the file under the key 'tools', and returned.
save_tools_to_yaml ==
    /\ setup_pc = "returned"
    /\ Len(exports) < MaxExports
    /\ exports' = Append(exports,
                         [returned |-> SchemaList(tools, tool_keys),
                          written |-> [tools |-> SchemaList(tools, tool_keys)]])
    /\ UNCHANGED <<agent_vars, hl_vars, wire_vars, chat_vars, live_vars,
                   serve_vars, setup_queue, tools, setup_pc, setup_error,
                   setup_log, tool_keys>>

NextSetup == SetupClass \/ SetupReturn \/ save_tools_to_yaml

SpecSetup == InitSetup /\ [][NextSetup]_vars

\* The classes registered under the name of the i-th class before it.
RegisteredBefore(i) ==
    {j \in 1..(i - 1) : /\ setup_log[j].class.name = setup_log[i].class.name
                        /\ setup_log[j].outcome.kind = "return"}

\* C19: a class whose name is already registered is refused with a
\* duplicate-tool error, and the registry keeps the first registration.
C19_DuplicateRegistrationFails ==
    \A i \in 1..Len(setup_log) :
        RegisteredBefore(i) # {} =>
            /\ setup_log[i].outcome.kind = "raise"
            /\ setup_log[i].outcome.value = "DuplicateToolError"
            /\ \E j \in RegisteredBefore(i) :
                   /\ \A k \in RegisteredBefore(i) : j <= k
                   /\ tools[setup_log[i].class.name].obj = setup_log[j].class

\* C20: the parameter names of a registered tool's schema, properties and
\* required, are the parameters of its handler other than user_prompt; a
\* property with no matching parameter is removed, not an error.
C20_SchemaMatchesHandler ==
    /\ \A n \in DOMAIN tools :
          LET accepted == Range(tools[n].obj.call_params) \ {"user_prompt"}
          IN  /\ Range(Names(tools[n].schema.properties)) = accepted
              /\ Range(tools[n].schema.required) = accepted
    /\ \A i \in 1..Len(setup_log) :
          setup_log[i].class.returns_str => setup_log[i].outcome.kind = "return"

\* C21: exporting the schemas is idempotent and leaves the registry alone:
\* all exports return the same list, in the order of the registry, and an
\* export changes no Tool.
C21_ExportIsIdempotent ==
    /\ [](\A i \in 1..Len(exports) :
              /\ exports[i].returned = exports[1].returned
              /\ exports[i].returned = SchemaList(tools, tool_keys)
              /\ exports[i].written = [tools |-> exports[i].returned])
    /\ [][exports' # exports => tools' = tools /\ tool_keys' = tool_keys]_vars

\* Two tools are registered and exported twice.
C21_Witness == Len(exports) = 2 /\ Len(exports[2].returned) = 2

\* C22: interact_functional returns the answer and prints nothing to the
\* terminal.
C22_FunctionalPrintsNothing ==
    op = "interact_functional" => printed = None

\* An assistant message with a non-empty list of tool calls.
AsksForTool(m) ==
    /\ m.role = "assistant"
    /\ m.tool_calls # None
    /\ m.tool_calls[1] # <<>>

\* The last tool round of the current dispatch raised an exception that
\* left dispatch.
ToolEscaped == handler_calls # <<>> /\ Escaped(Len(handler_calls))

\* C23 amended: the loop has no cap.  Every response but the last of a
\* dispatch asked for a tool and was followed by one tool round; after n
\* such responses and n rounds the (n+1)-th adapter call is made; a dispatch
\* that ended did so on a response that does not ask for a tool, or in a tool
\* round by an exception that does not derive from Exception.
C23_NoCapUnlessAToolEscapes ==
    /\ \A i \in 1..(llm_calls - 1) :
          /\ AsksForTool(llm_log[i].response)
          /\ handler_calls[i].after_call = i
          /\ i \in Answered
    /\ pc = "AWAITING_MODEL" =>
          /\ Len(handler_calls) = llm_calls
          /\ \A i \in 1..llm_calls : AsksForTool(llm_log[i].response)
          /\ ENABLED (\E response \in FinalResponses : CallModel(response))
    /\ Ended =>
          IF ToolEscaped
          THEN /\ AsksForTool(llm_log[llm_calls].response)
               /\ Len(handler_calls) = llm_calls
               /\ pc \in {"RAISED", "idle"}
               /\ raised # None
               /\ raised[1].type \notin ExceptionClasses
          ELSE /\ ~AsksForTool(llm_log[llm_calls].response)
               /\ Len(handler_calls) = llm_calls - 1

\* C23 as claimed: the loop has no cap.  Every response but the last of a
\* dispatch asked for a tool and was followed by one tool round; after n such
\* responses and n rounds the (n+1)-th adapter call is made; a dispatch that
\* ended did so on a response that does not ask for a tool.
C23_NoIterationCap ==
    /\ \A i \in 1..(llm_calls - 1) :
          /\ AsksForTool(llm_log[i].response)
          /\ handler_calls[i].after_call = i
    /\ pc = "AWAITING_MODEL" =>
          /\ Len(handler_calls) = llm_calls
          /\ \A i \in 1..llm_calls : AsksForTool(llm_log[i].response)
          /\ ENABLED (\E response \in FinalResponses : CallModel(response))
    /\ Ended =>
          /\ ~AsksForTool(llm_log[llm_calls].response)
          /\ Len(handler_calls) = llm_calls - 1

\* Two tool rounds were run and a third adapter call ended the dispatch.
C23_Witness ==
    /\ pc = "DONE"
    /\ llm_calls = 3
    /\ Len(handler_calls) = 2
    /\ AsksForTool(llm_log[2].response)

\* C24: the working set of a dispatch is one UserMessage, then one pair
\* (assistant message asking for a tool, ToolMessage) per tool round after
\* which the loop went on, these rounds being the first k, then at most one
\* more adapter response.  Each ToolMessage carries the id and the
\* name of the first tool call of the message before it.  When dispatch has
\* returned there are 2k+2 messages and the last is an adapter response.
C24_WorkingSetShape ==
    (pc # "idle" \/ llm_calls > 0) =>
        LET k == Cardinality(Answered)
        IN  /\ Len(dispatch_messages) \in {2 * k + 1, 2 * k + 2}
            /\ Answered = 1..k
            /\ dispatch_messages[1].role = "user"
            /\ \A j \in 1..k :
                  /\ dispatch_messages[2 * j].role = "assistant"
                  /\ dispatch_messages[2 * j].tool_calls # <<>>
                  /\ dispatch_messages[2 * j].tool_calls[1] # <<>>
                  /\ dispatch_messages[2 * j + 1].role = "tool"
                  /\ dispatch_messages[2 * j + 1].tool_call_id
                       = dispatch_messages[2 * j].tool_calls[1][1].tool_call_id
                  /\ dispatch_messages[2 * j + 1].name
                       = dispatch_messages[2 * j].tool_calls[1][1].function_name
            /\ Len(dispatch_messages) = 2 * k + 2 =>
                  /\ dispatch_messages[2 * k + 2] = llm_log[k + 1].response
                  /\ dispatch_messages[2 * k + 2].role # "tool"
            /\ (pc = "DONE" \/ Returned) =>
                  /\ Len(dispatch_messages) = 2 * k + 2
                  /\ Last(dispatch_messages).role # "tool"

\* A dispatch returned after two rounds, the first of them asked for with two
\* tool calls in one message.
C24_Witness ==
    /\ pc = "DONE"
    /\ Len(dispatch_messages) = 6
    /\ Len(dispatch_messages[2].tool_calls[1]) >= 2
    /\ dispatch_messages[3].tool_call_id = "call_1"
    /\ dispatch_messages[3].name = "Echo"

\* C25: every context dispatch passes to the adapter satisfies the
\* precondition of the ollama chat function: it is not empty and, after the
\* leading SystemMessage, user or tool messages alternate with assistant
\* messages.
C25_ContextsSatisfyThePrecondition ==
    \A i \in 1..llm_calls :
        /\ llm_log[i].context # <<>>
        /\ ~AlternationBroken(llm_log[i].context)

----------------------------------------------------------------------------
(* Dispatch when the adapter raises                                        *)
(*                                                                         *)
(* Spec takes every adapter call to return.  self.llm(...) is not inside a *)
(* try (agent.py:225-228): an exception of the adapter leaves dispatch and *)
(* its caller at once.  SpecFail adds that step to the steps of Spec.      *)

\* What the chat function raises: ValueError for a context it refuses, what
\* client.chat raises other than ollama.ResponseError, and the KeyError and
\* json.JSONDecodeError of message_from_api_response.
AdapterExceptions ==
    {"ValueError", "ConnectionError", "KeyError", "JSONDecodeError"}

\* self.llm(...) raises: nothing is appended to the working set.
AdapterRaises(exception) ==
    /\ pc = "AWAITING_MODEL"
    /\ pc' = "RAISED"
    /\ raised' = Some([type |-> exception, value |-> "raised by the adapter"])
    /\ UNCHANGED <<messages, dispatch_messages, op, user_prompt,
                   select_tool_response, llm_log, handler_calls, answer,
                   printed, session_before, completed>>
    /\ UNCHANGED other_vars

NextFail ==
    \/ Next
    \/ \E exception \in AdapterExceptions : AdapterRaises(exception)

SpecFail == Init /\ [][NextFail]_vars

\* C26: a dispatch that raised leaves the session as it was before the call,
\* and its working set never reaches the session: the only step that writes
\* the session follows a dispatch that returned and appends the working set
\* of that dispatch.
C26_FailedDispatchIsNotMerged ==
    /\ []((DispatchRaised /\ pc \in {"RAISED", "idle"})
             => messages = session_before)
    /\ [][pc = "RAISED" => messages' = messages /\ completed' = completed]_vars
    /\ [][messages' # messages
            => /\ pc = "DONE"
               /\ raised = None
               /\ Len(llm_log) = (Len(dispatch_messages) \div 2)
               /\ messages' = session_before \o dispatch_messages]_vars

\* The adapter raised after a tool round of a second interaction: the
\* session is that of the first.
C26_Witness ==
    /\ pc = "idle"
    /\ raised # None
    /\ raised[1].type = "ConnectionError"
    /\ Len(dispatch_messages) = 3
    /\ session_before # <<>>
    /\ messages = session_before

----------------------------------------------------------------------------
(* Calls of highlight_code (src/src/groundcrew/utils.py) *)

\* The pieces the texts are made of, and how many of them at most.
Pieces ==
    { <<"a">>, <<"a", "b">>, <<"x">>, <<"NL">>, <<"BQ">>, FENCE, PYTHON_FENCE }

MaxPieces == 3

RECURSIVE Join(_)
Join(pieces) ==
    IF pieces = <<>> THEN <<>> ELSE Head(pieces) \o Join(Tail(pieces))

Texts == { Join(ps) : ps \in UNION { [1..n -> Pieces] : n \in 1..MaxPieces } }

InitHighlight ==
    /\ AgentInit
    /\ NoChat
    /\ NoLive
    /\ NoServe
    /\ NoSetup
    /\ NoWire
    /\ hl_text \in Texts
    /\ hl_out = <<>>
    /\ hl_pc = "called"

\* if PYTHON_FENCE not in text: return text
HlReturnText ==
    /\ hl_pc = "called"
    /\ ~contains(hl_text, PYTHON_FENCE)
    /\ hl_out' = hl_text
    /\ hl_pc' = "returned"
    /\ UNCHANGED <<agent_vars, chat_vars, live_vars, serve_vars, setup_vars,
                   wire_vars, hl_text>>

\* out = highlight_code_helper(text, colorscheme)
HlFirstPass ==
    /\ hl_pc = "called"
    /\ contains(hl_text, PYTHON_FENCE)
    /\ IF Len(highlight_code_helper(hl_text)) > MaxTextLen
       THEN hl_pc' = "raised" /\ UNCHANGED hl_out
       ELSE hl_pc' = "looping" /\ hl_out' = highlight_code_helper(hl_text)
    /\ UNCHANGED <<agent_vars, chat_vars, live_vars, serve_vars, setup_vars,
                   wire_vars, hl_text>>

\* while PYTHON_FENCE in out: out = highlight_code_helper(out, colorscheme)
HlNextPass ==
    /\ hl_pc = "looping"
    /\ contains(hl_out, PYTHON_FENCE)
    /\ IF Len(highlight_code_helper(hl_out)) > MaxTextLen
       THEN hl_pc' = "raised" /\ UNCHANGED hl_out
       ELSE hl_pc' = "looping" /\ hl_out' = highlight_code_helper(hl_out)
    /\ UNCHANGED <<agent_vars, chat_vars, live_vars, serve_vars, setup_vars,
                   wire_vars, hl_text>>

\* return out
HlReturnOut ==
    /\ hl_pc = "looping"
    /\ ~contains(hl_out, PYTHON_FENCE)
    /\ hl_pc' = "returned"
    /\ UNCHANGED <<agent_vars, chat_vars, live_vars, serve_vars, setup_vars,
                   wire_vars, hl_text, hl_out>>

NextHighlight == HlReturnText \/ HlFirstPass \/ HlNextPass \/ HlReturnOut

SpecHighlight == InitHighlight /\ [][NextHighlight]_vars

\* C27: highlight_code returns for every text, and what it returns has no
\* PYTHON_FENCE marker.
C27_HighlightCodeReturns ==
    /\ hl_pc # "raised"
    /\ hl_pc = "returned" => ~contains(hl_out, PYTHON_FENCE)

----------------------------------------------------------------------------
(* message_to_dict and dict_to_message (src/src/groundcrew/llm/ollama_api.py) *)
(*                                                                         *)
(* A message is the record of its dataclass fields, tool_calls an Optional *)
(* (None, or Some(list)); a dict is a function on the keys it has.         *)

\* json.dumps on the arguments of a tool call.
json_dumps(function_args) ==
    CASE function_args = <<>> -> "{}"
      [] function_args = [a |-> "1"] -> "{\"a\": \"1\"}"

toolcall_to_dict(tool_call) ==
    [id |-> tool_call.tool_call_id,
     type |-> "function",
     function |-> [name |-> tool_call.function_name,
                   arguments |-> json_dumps(tool_call.function_args)]]

\* value is None, for the field key of message
IsNone(message, key) ==
    IF key = "tool_calls" THEN message[key] = None ELSE message[key] = PyNone

message_to_dict(message) ==
    [key \in {k \in DOMAIN message \ {"class"} : ~IsNone(message, k)} |->
        IF key = "tool_calls"
        THEN [i \in 1..Len(message[key][1]) |->
                 toolcall_to_dict(message[key][1][i])]
        ELSE message[key]]

dict_to_message(message_dict) ==
    LET role == IF "role" \in DOMAIN message_dict
                THEN message_dict["role"] ELSE PyNone
    IN  CASE role = "system" ->
               IF "content" \notin DOMAIN message_dict
               THEN Raise("KeyError: 'content'")
               ELSE Return(OllamaSystemMessage(message_dict["content"]))
          [] role = "user" ->
               IF "content" \notin DOMAIN message_dict
               THEN Raise("KeyError: 'content'")
               ELSE Return(OllamaUserMessage(message_dict["content"]))
          [] role = "assistant" ->
               LET tool_calls ==
                       IF "tool_calls" \in DOMAIN message_dict
                       THEN ParseToolCalls(message_dict["tool_calls"])
                       ELSE Return(<<>>)
               IN  IF tool_calls.kind = "raise" THEN tool_calls
                   ELSE IF "content" \notin DOMAIN message_dict
                        THEN Raise("KeyError: 'content'")
                   ELSE Return(OllamaAssistantMessage(
                            message_dict["content"],
                            IF "tool_calls" \in DOMAIN message_dict
                            THEN Some(tool_calls.value) ELSE None))
          [] role = "tool" ->
               IF "content" \notin DOMAIN message_dict
               THEN Raise("KeyError: 'content'")
               ELSE IF "tool_call_id" \notin DOMAIN message_dict
                    THEN Raise("KeyError: 'tool_call_id'")
               ELSE Return(OllamaToolMessage(message_dict["content"],
                                             message_dict["tool_call_id"]))
          [] role = PyNone -> Raise("TypeError")
          [] OTHER -> Raise("ValueError")

\* The messages that are converted: every variant, with a content that is a
\* str or None, and tool calls of more than one tool_type.
WireContents == {"hi", "", PyNone}

WireToolCalls ==
    { [ToolCall("Echo", function_args, "call_1") EXCEPT !.tool_type = tool_type] :
        function_args \in {<<>>, [a |-> "1"]},
        tool_type \in {"function", "retrieval"} }

MaxWireCalls == 2

WireToolCallLists == UNION { [1..n -> WireToolCalls] : n \in 0..MaxWireCalls }

WireMessages ==
    {OllamaSystemMessage(content) : content \in WireContents}
    \cup {OllamaUserMessage(content) : content \in WireContents}
    \cup {OllamaAssistantMessage(content, None) : content \in WireContents}
    \cup {OllamaAssistantMessage(content, Some(tool_calls)) :
             content \in WireContents, tool_calls \in WireToolCallLists}
    \cup {OllamaToolMessage(content, tool_call_id) :
             content \in WireContents, tool_call_id \in {"call_1", "call_2"}}

InitWire ==
    /\ AgentInit
    /\ NoChat
    /\ NoLive
    /\ NoServe
    /\ NoSetup
    /\ NoHighlight
    /\ wire_message \in WireMessages
    /\ wire_dict = None
    /\ wire_back = None

\* d = message_to_dict(m)
WireSerialize ==
    /\ wire_dict = None
    /\ wire_dict' = Some(message_to_dict(wire_message))
    /\ UNCHANGED <<agent_vars, chat_vars, live_vars, serve_vars, setup_vars,
                   hl_vars, wire_message, wire_back>>

\* dict_to_message(d)
WireParse ==
    /\ wire_dict # None
    /\ wire_back = None
    /\ wire_back' = Some(dict_to_message(wire_dict[1]))
    /\ UNCHANGED <<agent_vars, chat_vars, live_vars, serve_vars, setup_vars,
                   hl_vars, wire_message, wire_dict>>

NextWire == WireSerialize \/ WireParse

SpecWire == InitWire /\ [][NextWire]_vars

\* C28: for every message m, dict_to_message(message_to_dict(m)) returns,
\* and what it returns equals m.
C28_SerializationRoundTrips ==
    wire_back # None =>
        /\ wire_back[1].kind = "return"
        /\ wire_back[1].value = wire_message

----------------------------------------------------------------------------
(* run_tool and the assistant message that asked for the tool *)

\* C29: run_tool leaves the function_args of the tool call as the adapter
\* returned them.  After every tool round the working set holds, for that
\* round, the assistant message the adapter returned; every later context
\* passed to the adapter holds it, and so does the session once the working
\* set is merged.
C29_RunToolLeavesTheMessageUnchanged ==
    /\ (pc # "idle" \/ llm_calls > 0) =>
          \A i \in 1..Len(handler_calls) :
              /\ dispatch_messages[2 * i] = llm_log[i].response
              /\ handler_calls[i].called # None =>
                    handler_calls[i].called[1].function_args
                        = FirstToolCall(dispatch_messages[2 * i]).function_args
              /\ \A j \in (i + 1)..llm_calls :
                    llm_log[j].context[Len(llm_log[j].context) - 2 * (j - i) + 1]
                        = llm_log[i].response
    /\ (pc = "idle" /\ raised = None /\ llm_calls > 0) =>
          \A i \in 1..Len(handler_calls) :
              messages[Len(messages) - Len(dispatch_messages) + 2 * i]
                  = llm_log[i].response

\* A session into which a round was merged whose handler was called without
\* the key c the LLM sent and with a key b it did not send.
C29_Witness ==
    /\ pc = "idle"
    /\ raised = None
    /\ Len(handler_calls) >= 1
    /\ handler_calls[1].called # None
    /\ handler_calls[1].called[1].function_args = [a |-> "1", c |-> "99"]
    /\ handler_calls[1].called[1].tool_args = [a |-> "1", b |-> PyNone]
    /\ FirstToolCall(messages[Len(messages) - Len(dispatch_messages) + 2]).function_args
           = [a |-> "1", c |-> "99"]

====
